---- MODULE Spec2Model ----
(***************************************************************************)
(* Catalog query layer of ShopSite (src/utils.py): load_products_data,     *)
(* search_products and the lookups, with the pandas operations they call   *)
(* modelled by what they do on the frame, the tools of src/agent_core.py   *)
(* that call them, and the chat history of src/app.py.                     *)
(*                                                                         *)
(* Text is a sequence of one-character strings.  An optional value is a    *)
(* sequence of length at most one: <<>> is a missing cell (NaN / None),    *)
(* <<x>> a present one.                                                    *)
(***************************************************************************)
EXTENDS Integers, Sequences, FiniteSets, TLC

VARIABLES
    source,      \* the product file as pandas.read_csv sees it
    build,       \* what the installed pandas/numpy decide (fixed for a process)
    products_df, \* agent_core.products_df, the frame loaded at import
    args,        \* arguments of the last search_products call
    result,      \* the frame that call returned
    called,      \* a call has been made
    repeated,    \* the last call repeated the arguments of the one before it
    reply,       \* what the last load or lookup returned to its caller
    chat_history \* st.session_state.chat_history of the chat page

vars ==
    <<source, build, products_df, args, result, called, repeated, reply, chat_history>>

\* Largest number of data rows of a source file.
MaxRows == 3

\* The longest conversation followed, in queries since the greeting
MaxQueries == 3

----------------------------------------------------------------------------
(* Optional values and text                                                *)

None == <<>>
Some(x) == <<x>>
IsNone(o) == Len(o) = 0
IsSome(o) == Len(o) = 1
Get(o) == o[1]

SeqUpTo(S, n) == UNION {[1..k -> S] : k \in 0..n}

UpperCase == <<"A","B","C","D","E","F","G","H","I","J","K","L","M",
               "N","O","P","Q","R","S","T","U","V","W","X","Y","Z">>
LowerCase == <<"a","b","c","d","e","f","g","h","i","j","k","l","m",
               "n","o","p","q","r","s","t","u","v","w","x","y","z">>

\* The lower-case letter of each upper-case letter
ToLower ==
    [c \in {UpperCase[i] : i \in 1..26} |->
        LowerCase[CHOOSE i \in 1..26 : UpperCase[i] = c]]

\* str.lower on one character
LowerChar(c) == IF c \in DOMAIN ToLower THEN ToLower[c] ELSE c

\* str.lower
Lower(s) == [i \in 1..Len(s) |-> LowerChar(s[i])]

\* str.isspace: non-empty and every character is whitespace
IsSpace(s) == Len(s) > 0 /\ \A i \in 1..Len(s) : s[i] = " "

Digits == <<"0","1","2","3","4","5","6","7","8","9">>
IsDigit(c) == \E d \in 1..10 : Digits[d] = c
DigitVal(c) == (CHOOSE d \in 1..10 : Digits[d] = c) - 1

RECURSIVE DecimalValue(_)
DecimalValue(s) ==
    IF Len(s) = 0 THEN 0
    ELSE 10 * DecimalValue(SubSeq(s, 1, Len(s) - 1)) + DigitVal(s[Len(s)])

\* pd.to_numeric(errors='coerce') on one cell: a number, or NaN for a
\* missing cell and for text that is no number.
to_numeric(cell) ==
    IF IsSome(cell) /\ Len(Get(cell)) > 0
       /\ \A i \in 1..Len(Get(cell)) : IsDigit(Get(cell)[i])
    THEN Some(DecimalValue(Get(cell)))
    ELSE None

----------------------------------------------------------------------------
(* The regular expressions str.contains compiles (regex=True by default):  *)
(* literal characters, "." for any character, and "(" which opens a group  *)
(* that the alphabet cannot close.                                         *)

\* re.compile raises re.error
re_error(pat) == \E i \in 1..Len(pat) : pat[i] = "("

re_match_at(pat, s, off) ==
    \A j \in 1..Len(pat) : pat[j] = "." \/ pat[j] = s[off + j]

\* re.search(pat, s) is not None, for a pattern that compiles
re_search(pat, s) ==
    \E off \in 0..(Len(s) - Len(pat)) : re_match_at(pat, s, off)

----------------------------------------------------------------------------
(* The frame                                                               *)

StdColumns == {"id", "name", "price", "category", "description", "brand", "rating"}

\* pd.DataFrame(columns=[...]): no rows, every column of object dtype
EmptyFrame == [cols |-> StdColumns, strcols |-> StdColumns, rows |-> <<>>]

\* An exception that leaves a function instead of a frame.  The handlers of
\* load_products_data and search_products let none through.
Raised == [cols |-> {}, strcols |-> {}, rows |-> <<>>, raised |-> TRUE]

\* A column read_csv leaves with object dtype, so that the .str accessor
\* works on it: a text column with at least one present cell, or any column
\* of a file without data rows.  A column whose cells are all missing is
\* float64.
ObjectDtype(src, col) ==
    Len(src.rows) = 0 \/ \E i \in 1..Len(src.rows) : IsSome(src.rows[i][col])

----------------------------------------------------------------------------
(* load_products_data                                                      *)

RequiredColumns == {"product_id", "name", "price", "category"}

\* read_csv's default true_values and false_values
TrueValues == {<<"T","r","u","e">>, <<"T","R","U","E">>, <<"t","r","u","e">>}
FalseValues == {<<"F","a","l","s","e">>, <<"F","A","L","S","E">>, <<"f","a","l","s","e">>}
BoolLike(cell) == IsSome(cell) /\ Get(cell) \in (TrueValues \cup FalseValues)

\* What read_csv makes of the in_stock column: "bool" when every cell is a
\* boolean word, "float" when every cell is missing, "object_bool" (Python
\* booleans and NaN) when the present cells are boolean words and some cell
\* is missing, "object_str" (the cells kept as text, NaN for a missing one)
\* otherwise, and an empty object column for a file without data rows.
StockColumnKind(src) ==
    LET n == Len(src.rows)
        cell(i) == src.rows[i].in_stock
    IN  IF n = 0 THEN "object_str"
        ELSE IF \A i \in 1..n : IsNone(cell(i)) THEN "float"
        ELSE IF \A i \in 1..n : BoolLike(cell(i)) THEN "bool"
        ELSE IF \A i \in 1..n : IsNone(cell(i)) \/ BoolLike(cell(i)) THEN "object_bool"
        ELSE "object_str"

\* pd.api.types.is_string_dtype(df['in_stock']).  For an object column,
\* pandas before 2.0 answers True whatever the column holds; pandas 2.x
\* answers True only if every element is a string (a NaN is none).
is_string_dtype(src, bld) ==
    LET kind == StockColumnKind(src)
    IN  CASE kind \in {"bool", "float"} -> FALSE
          [] kind = "object_bool" -> ~bld.strict_string_dtype
          [] OTHER ->
                \/ ~bld.strict_string_dtype
                \/ \A i \in 1..Len(src.rows) : IsSome(src.rows[i].in_stock)

\* .str.lower().map({'true': True, 'yes': True}).fillna(False).astype(bool)
\* on one cell of a column of text: a missing cell maps to NaN and is filled
\* with False.
StockFromText(cell) ==
    IsSome(cell) /\ Lower(Get(cell)) \in {<<"t","r","u","e">>, <<"y","e","s">>}

\* The .str accessor on df['in_stock'] raises AttributeError: the column
\* passed is_string_dtype but holds Python booleans, not strings.
StockStrRaises(src, bld) ==
    /\ "in_stock" \in src.cols
    /\ is_string_dtype(src, bld)
    /\ StockColumnKind(src) = "object_bool"

\* .astype(bool) on one cell: a boolean passes through, NaN and any
\* (non-empty) text are truthy.
StockAsBool(cell, kind) ==
    IF kind \in {"bool", "object_bool"} /\ IsSome(cell)
    THEN Get(cell) \in TrueValues
    ELSE TRUE

NormalizeStock(src, bld, cell) ==
    IF is_string_dtype(src, bld)
    THEN StockFromText(cell)
    ELSE StockAsBool(cell, StockColumnKind(src))

\* One row of the frame: the columns of the file that exist, coerced.
LoadRow(src, bld, i) ==
    LET r == src.rows[i]
    IN  [idx         |-> i,
         id          |-> r.pid,
         name        |-> r.name,
         description |-> IF "description" \in src.cols THEN r.description ELSE None,
         price       |-> to_numeric(r.price),
         category    |-> r.category,
         brand       |-> IF "brand" \in src.cols THEN r.brand ELSE None,
         rating      |-> IF "rating" \in src.cols THEN to_numeric(r.rating) ELSE None,
         in_stock    |-> IF "in_stock" \in src.cols
                         THEN Some(NormalizeStock(src, bld, r.in_stock))
                         ELSE None]

\* dropna keeping the rows that have an id, whatever their price
dropna_IdOnly(rows) == SelectSeq(rows, LAMBDA r : IsSome(r.id))

\* df.dropna(subset=['id', 'price'])
dropna(rows) == SelectSeq(rows, LAMBDA r : IsSome(r.id) /\ IsSome(r.price))

\* The frame of a file that was read and has the required columns: the
\* rename, the coercions and the dropna (lines 57-76)
LoadedFrame(src, bld) ==
    [cols    |-> (src.cols \ {"product_id"}) \cup {"id"},
     strcols |-> {c \in {"name", "category", "description", "brand"} \cap src.cols :
                     ObjectDtype(src, c)},
     rows    |-> dropna([i \in 1..Len(src.rows) |-> LoadRow(src, bld, i)])]

\* load_products_data with the ValueError of a missing required column
\* not handled
load_products_data_MissingColumnEscapes(src, bld) ==
    IF ~src.readable \/ ~src.parses \/ StockStrRaises(src, bld) THEN EmptyFrame
    ELSE IF ~(RequiredColumns \subseteq src.cols) THEN Raised
    ELSE LoadedFrame(src, bld)

\* load_products_data with the ParserError of a malformed file not handled
load_products_data_ParserErrorEscapes(src, bld) ==
    IF src.readable /\ ~src.parses THEN Raised
    ELSE IF \/ ~src.readable
            \/ ~(RequiredColumns \subseteq src.cols)
            \/ StockStrRaises(src, bld)
    THEN EmptyFrame
    ELSE LoadedFrame(src, bld)

load_products_data(src, bld) ==
    IF \/ ~src.readable
       \/ ~src.parses
       \/ ~(RequiredColumns \subseteq src.cols)
       \/ StockStrRaises(src, bld)
    THEN EmptyFrame
    ELSE LoadedFrame(src, bld)

----------------------------------------------------------------------------
(* search_products                                                         *)

SortKeys == {"price_low", "price_high", "rating", "newest"}

\* The order in which an argsort of the given kind leaves two positions of
\* equal key.  sort_values is called with the default kind='quicksort',
\* which promises no order among equal keys: a build whose sort is stable
\* keeps them in frame order, any other is modelled by the opposite order.
TieBefore_ByCallHistory(i, j, bld) == IF called THEN j < i ELSE i < j

TieBefore(i, j, bld) == IF bld.stable_sort THEN i < j ELSE j < i

\* df.sort_values(by=..., ascending=..., na_position='last') (nargsort):
\* the rows with a key ordered by it, then the rows without one in frame
\* order.
sort_values(rows, by, ascending, bld) ==
    LET Positions == 1..Len(rows)
        has(i) == IsSome(rows[i][by])
        k(i) == Get(rows[i][by])
        before(i, j) ==
            \/ has(i) /\ ~has(j)
            \/ ~has(i) /\ ~has(j) /\ i < j
            \/ /\ has(i) /\ has(j)
               /\ \/ IF ascending THEN k(i) < k(j) ELSE k(i) > k(j)
                  \/ k(i) = k(j) /\ TieBefore(i, j, bld)
        place(i) == 1 + Cardinality({j \in Positions : before(j, i)})
    IN  [p \in Positions |-> rows[CHOOSE i \in Positions : place(i) = p]]

\* CategoryFilter with the argument compared as given
CategoryFilter_ArgumentAsGiven(rows, category) ==
    SelectSeq(rows, LAMBDA r :
        IsSome(r.category) /\ Lower(Get(r.category)) = category)

\* filtered_df['category'].str.lower() == category.lower()
CategoryFilter(rows, category) ==
    SelectSeq(rows, LAMBDA r :
        IsSome(r.category) /\ Lower(Get(r.category)) = Lower(category))

\* filtered_df['brand'].str.lower() == brand.lower()
BrandFilter(rows, brand) ==
    SelectSeq(rows, LAMBDA r : IsSome(r.brand) /\ Lower(Get(r.brand)) = Lower(brand))

\* MinPriceFilter with the bound exclusive
MinPriceFilter_Exclusive(rows, min_price) ==
    SelectSeq(rows, LAMBDA r : IsSome(r.price) /\ Get(r.price) > min_price)

\* filtered_df['price'] >= min_price
MinPriceFilter(rows, min_price) ==
    SelectSeq(rows, LAMBDA r : IsSome(r.price) /\ Get(r.price) >= min_price)

\* MaxPriceFilter with the comparison turned round
MaxPriceFilter_AtLeast(rows, max_price) ==
    SelectSeq(rows, LAMBDA r : IsSome(r.price) /\ Get(r.price) >= max_price)

\* filtered_df['price'] <= max_price
MaxPriceFilter(rows, max_price) ==
    SelectSeq(rows, LAMBDA r : IsSome(r.price) /\ Get(r.price) <= max_price)

\* filtered_df['rating'] >= rating_min (a comparison with NaN is False)
RatingFilter(rows, rating_min) ==
    SelectSeq(rows, LAMBDA r : IsSome(r.rating) /\ Get(r.rating) >= rating_min)

\* filtered_df['in_stock'] == True (the loaded column is boolean)
StockFilter(rows) ==
    SelectSeq(rows, LAMBDA r : IsSome(r.in_stock) /\ Get(r.in_stock))

\* series.str.lower().str.contains(query_lower, na=False) on one cell
str_contains(cell, query_lower) ==
    IsSome(cell) /\ re_search(query_lower, Lower(Get(cell)))

\* The text filter: name_mask | desc_mask, desc_mask all False when the
\* frame has no description column.
TextFilter(df, rows, query) ==
    SelectSeq(rows, LAMBDA r :
        \/ str_contains(r.name, Lower(query))
        \/ "description" \in df.cols /\ str_contains(r.description, Lower(query)))

\* if query and not query.isspace()
QueryActive(query) == Len(query) > 0 /\ ~IsSpace(query)

\* The calls that raise inside the try block: the .str accessor on a column
\* that is not of object dtype, and re.compile on a bad pattern.
Raises(df, a) ==
    \/ IsSome(a.category) /\ "category" \notin df.strcols
    \/ IsSome(a.brand) /\ "brand" \in df.cols /\ "brand" \notin df.strcols
    \/ /\ QueryActive(a.query)
       /\ \/ "name" \notin df.strcols
          \/ re_error(Lower(a.query))
          \/ "description" \in df.cols /\ "description" \notin df.strcols

\* ApplySort with the rating order ascending
ApplySort_RatingAscending(df, rows, sort_by, bld) ==
    IF Len(rows) > 0 /\ sort_by = "rating" /\ "rating" \in df.cols
    THEN sort_values(rows, "rating", TRUE, bld)
    ELSE rows

\* ApplySort with the two price orders swapped
ApplySort_PriceSwapped(df, rows, sort_by, bld) ==
    IF Len(rows) = 0 THEN rows
    ELSE CASE sort_by = "price_low" -> sort_values(rows, "price", FALSE, bld)
           [] sort_by = "price_high" -> sort_values(rows, "price", TRUE, bld)
           [] sort_by = "newest" -> sort_values(rows, "id", FALSE, bld)
           [] OTHER -> rows

\* ApplySort with every other sort_by read as "price_low"
ApplySort_UnknownAsPrice(df, rows, sort_by, bld) ==
    IF Len(rows) = 0 THEN rows
    ELSE CASE sort_by = "price_high" -> sort_values(rows, "price", FALSE, bld)
           [] sort_by = "rating" /\ "rating" \in df.cols ->
                sort_values(rows, "rating", FALSE, bld)
           [] sort_by = "newest" -> sort_values(rows, "id", FALSE, bld)
           [] OTHER -> sort_values(rows, "price", TRUE, bld)

ApplySort(df, rows, sort_by, bld) ==
    IF Len(rows) = 0 THEN rows
    ELSE CASE sort_by = "price_low" ->
                sort_values(rows, "price", TRUE, bld)
           [] sort_by = "price_high" ->
                sort_values(rows, "price", FALSE, bld)
           [] sort_by = "rating" /\ "rating" \in df.cols ->
                sort_values(rows, "rating", FALSE, bld)
           [] sort_by = "newest" ->
                sort_values(rows, "id", FALSE, bld)
           [] OTHER -> rows

\* ApplyFilters with max_price read only when min_price is not given
ApplyFilters_MaxPriceElse(df, a) ==
    LET f1 == IF IsSome(a.category) THEN CategoryFilter(df.rows, Get(a.category))
              ELSE df.rows
        f2 == IF IsSome(a.brand) /\ "brand" \in df.cols
              THEN BrandFilter(f1, Get(a.brand)) ELSE f1
        f4 == IF IsSome(a.min_price) THEN MinPriceFilter(f2, Get(a.min_price))
              ELSE IF IsSome(a.max_price) THEN MaxPriceFilter(f2, Get(a.max_price))
              ELSE f2
        f5 == IF IsSome(a.rating_min) /\ "rating" \in df.cols
              THEN RatingFilter(f4, Get(a.rating_min)) ELSE f4
        f6 == IF a.in_stock_only /\ "in_stock" \in df.cols THEN StockFilter(f5) ELSE f5
    IN  IF QueryActive(a.query) THEN TextFilter(df, f6, a.query) ELSE f6

\* ApplyFilters with the stock filter applied whatever in_stock_only says
ApplyFilters_StockAlways(df, a) ==
    LET f1 == IF IsSome(a.min_price) THEN MinPriceFilter(df.rows, Get(a.min_price))
              ELSE df.rows
        f2 == IF IsSome(a.max_price) THEN MaxPriceFilter(f1, Get(a.max_price)) ELSE f1
    IN  IF "in_stock" \in df.cols THEN StockFilter(f2) ELSE f2

\* The rows that pass the filters, in frame order (lines 124-170)
ApplyFilters(df, a) ==
    LET f0 == df.rows
        f1 == IF IsSome(a.category) THEN CategoryFilter(f0, Get(a.category)) ELSE f0
        f2 == IF IsSome(a.brand) /\ "brand" \in df.cols
              THEN BrandFilter(f1, Get(a.brand)) ELSE f1
        f3 == IF IsSome(a.min_price) THEN MinPriceFilter(f2, Get(a.min_price)) ELSE f2
        f4 == IF IsSome(a.max_price) THEN MaxPriceFilter(f3, Get(a.max_price)) ELSE f3
        f5 == IF IsSome(a.rating_min) /\ "rating" \in df.cols
              THEN RatingFilter(f4, Get(a.rating_min)) ELSE f4
        f6 == IF a.in_stock_only /\ "in_stock" \in df.cols THEN StockFilter(f5) ELSE f5
    IN  IF QueryActive(a.query) THEN TextFilter(df, f6, a.query) ELSE f6

\* search_products with no except clause around its body
search_products_Unhandled(src, bld, a) ==
    LET df == load_products_data(src, bld)
    IN  IF Raises(df, a) THEN Raised
        ELSE [cols    |-> df.cols,
              strcols |-> df.strcols,
              rows    |-> ApplySort(df, ApplyFilters(df, a), a.sort_by, bld)]

search_products(src, bld, a) ==
    LET df == load_products_data(src, bld)
    IN  IF Raises(df, a) THEN EmptyFrame
        ELSE [cols    |-> df.cols,
              strcols |-> df.strcols,
              rows    |-> ApplySort(df, ApplyFilters(df, a), a.sort_by, bld)]

\* search_products(query) with every keyword argument left at its default
DefaultArgs ==
    [query |-> <<>>, min_price |-> None, max_price |-> None, category |-> None,
     brand |-> None, rating_min |-> None, in_stock_only |-> TRUE,
     sort_by |-> "price_low"]

----------------------------------------------------------------------------
(* The lookups of src/utils.py and the category tool of src/agent_core.py  *)

\* How many products get_category_products lists (product_list[:20])
ListingLimit == 20

\* get_product_by_id returning the first row of the frame, whatever its id
get_product_by_id_FirstRow(src, bld, product_id) ==
    LET df == load_products_data(src, bld)
    IN  IF Len(df.rows) = 0 THEN None ELSE Some(df.rows[1])

\* product.iloc[0].to_dict() of df[df['id'] == product_id]: the first row of
\* the frame with that id, or None when there is none.
get_product_by_id(src, bld, product_id) ==
    LET df == load_products_data(src, bld)
        product == SelectSeq(df.rows, LAMBDA r : r.id = Some(product_id))
    IN  IF Len(product) = 0 THEN None ELSE Some(product[1])

\* df['category'].value_counts().to_dict(): each category of the frame with
\* the number of its rows (a missing category is not counted).
value_counts(df) ==
    LET present == {i \in 1..Len(df.rows) : IsSome(df.rows[i].category)}
    IN  [c \in {Get(df.rows[i].category) : i \in present} |->
            Cardinality({i \in present : Get(df.rows[i].category) = c})]

get_category_count(src, bld) == value_counts(load_products_data(src, bld))

\* The tool check_stock: the stock flag of the product get_product_by_id
\* returns, "not available" when the product has no in_stock value.
check_stock(src, bld, product_id) ==
    LET product == get_product_by_id(src, bld, product_id)
    IN  IF IsNone(product) THEN "not found"
        ELSE IF IsNone(Get(product).in_stock) THEN "not available"
        ELSE IF Get(Get(product).in_stock) THEN "in stock"
        ELSE "out of stock"

\* top_recommendations = filtered_products.head(5)
RecommendLimit == 5

RecommendLine(r) ==
    [id |-> r.id, name |-> r.name, price |-> r.price, category |-> r.category,
     rating |-> r.rating]

\* The tool recommend_products: the first RecommendLimit products of the
\* search for the query with max_price = budget, sorted by rating.
recommend_products(src, bld, query, budget) ==
    LET filtered_products ==
            search_products(src, bld,
                [DefaultArgs EXCEPT !.query = query, !.max_price = budget,
                                    !.sort_by = "rating"]).rows
        n == Len(filtered_products)
    IN  IF n = 0
        THEN [message |-> "no recommendations", lines |-> <<>>]
        ELSE [message |-> "recommendations",
              lines   |-> [i \in 1..(IF n > RecommendLimit THEN RecommendLimit ELSE n) |->
                              RecommendLine(filtered_products[i])]]

\* The tool list_product_categories: the categories of the frame held since
\* import with their counts; refuses while that frame is empty.
list_product_categories(held) ==
    IF Len(held.rows) = 0
    THEN [message |-> "not loaded", categories |-> value_counts(EmptyFrame)]
    ELSE IF DOMAIN value_counts(held) = {}
    THEN [message |-> "no categories found", categories |-> value_counts(held)]
    ELSE [message |-> "categories", categories |-> value_counts(held)]

\* One line of the category tool's list: id, name, price and rating
ProductLine(r) == [id |-> r.id, name |-> r.name, price |-> r.price, rating |-> r.rating]

ProductLines(rows) == [i \in 1..Len(rows) |-> ProductLine(rows[i])]

\* get_category_products searching with in_stock_only left at its default
get_category_products_InStockOnly(held, src, bld, category) ==
    IF Len(held.rows) = 0
    THEN [message |-> "not loaded", lines |-> <<>>, note |-> FALSE]
    ELSE LET category_products ==
                 search_products(src, bld,
                     [DefaultArgs EXCEPT !.category = Some(category)]).rows
             n == Len(category_products)
         IN  IF n = 0
             THEN [message |-> "no products found", lines |-> <<>>, note |-> FALSE]
             ELSE [message |-> "products",
                   lines   |-> ProductLines(SubSeq(category_products, 1,
                                   IF n > ListingLimit THEN ListingLimit ELSE n)),
                   note    |-> n > ListingLimit]

\* get_category_products with the note from ListingLimit products on
get_category_products_NoteAtLimit(held, src, bld, category) ==
    LET listing == get_category_products_InStockOnly(held, src, bld, category)
        category_products ==
            search_products(src, bld,
                [DefaultArgs EXCEPT !.category = Some(category),
                                    !.in_stock_only = FALSE]).rows
    IN  IF Len(held.rows) = 0 \/ Len(category_products) = 0
        THEN listing
        ELSE [message |-> "products",
              lines   |-> ProductLines(SubSeq(category_products, 1,
                              IF Len(category_products) > ListingLimit
                              THEN ListingLimit ELSE Len(category_products))),
              note    |-> Len(category_products) >= ListingLimit]

\* The tool get_category_products: refuses while the frame held since
\* import is empty, else searches the category with in_stock_only=False and
\* lists the first ListingLimit products, with a note when there are more.
get_category_products(held, src, bld, category) ==
    IF Len(held.rows) = 0
    THEN [message |-> "not loaded", lines |-> <<>>, note |-> FALSE]
    ELSE LET category_products ==
                 search_products(src, bld,
                     [DefaultArgs EXCEPT !.category = Some(category),
                                         !.in_stock_only = FALSE]).rows
             n == Len(category_products)
         IN  IF n = 0
             THEN [message |-> "no products found", lines |-> <<>>, note |-> FALSE]
             ELSE [message |-> "products",
                   lines   |-> ProductLines(SubSeq(category_products, 1,
                                   IF n > ListingLimit THEN ListingLimit ELSE n)),
                   note    |-> n > ListingLimit]

----------------------------------------------------------------------------
(* The state machine: a process holds no catalog but the frame agent_core  *)
(* loads at import; every call reads the source again.                     *)

\* One data row of the file, cell by cell
RawRow(pid, name, description, price, category, brand, rating, in_stock) ==
    [pid |-> pid, name |-> name, description |-> description, price |-> price,
     category |-> category, brand |-> brand, rating |-> rating,
     in_stock |-> in_stock]

\* The readable files with the given columns and up to MaxRows rows
Files(cols, RowSet) ==
    {[readable |-> TRUE, parses |-> TRUE, cols |-> cols, rows |-> r] :
        r \in SeqUpTo(RowSet, MaxRows)}

\* The same files with the ids 1, 2, ... in file order
Numbered(files) ==
    {[f EXCEPT !.rows = [i \in 1..Len(f.rows) |-> [f.rows[i] EXCEPT !.pid = Some(i)]]] :
        f \in files}

\* The same files with the prices ..., 2, 1 in file order (dearest first)
PricedDown(files) ==
    {[f EXCEPT !.rows = [i \in 1..Len(f.rows) |->
                            [f.rows[i] EXCEPT !.price =
                                Some(<<Digits[Len(f.rows) + 2 - i]>>)]]] :
        f \in files}

Builds == [stable_sort : BOOLEAN, strict_string_dtype : BOOLEAN]

\* No load or lookup has returned anything to its caller
NoReply == [op |-> "none"]

InitWith(Sources, BuildSet) ==
    /\ source \in Sources
    /\ build \in BuildSet
    /\ products_df = load_products_data(source, build)
    /\ args = DefaultArgs
    /\ result = EmptyFrame
    /\ called = FALSE
    /\ repeated = FALSE
    /\ reply = NoReply
    /\ chat_history = <<>>

\* A caller invokes utils.search_products with arguments from ArgSet and
\* gets the frame back.
Search(ArgSet) ==
    \E a \in ArgSet :
        /\ args' = a
        /\ result' = search_products(source, build, a)
        /\ called' = TRUE
        /\ repeated' = (called /\ a = args)
        /\ UNCHANGED <<source, build, products_df, reply, chat_history>>

\* The first call of a caller that holds no frame
Request(ArgSet) == ~called /\ Search(ArgSet)

\* The caller is done with the frame it got; nothing of the call remains.
Discard ==
    /\ called
    /\ args' = DefaultArgs
    /\ result' = EmptyFrame
    /\ called' = FALSE
    /\ repeated' = FALSE
    /\ UNCHANGED <<source, build, products_df, reply, chat_history>>

\* Nothing is held by a caller
Idle == ~called /\ reply.op = "none"

\* A caller invokes utils.load_products_data and gets the frame back.
Load ==
    /\ Idle
    /\ reply' = [op |-> "load_products_data", value |-> load_products_data(source, build)]
    /\ UNCHANGED <<source, build, products_df, args, result, called, repeated, chat_history>>

\* The tool get_product_details looks a product up by its id.
GetProductById(IdSet) ==
    \E product_id \in IdSet :
        /\ Idle
        /\ reply' = [op |-> "get_product_by_id", product_id |-> product_id,
                     value |-> get_product_by_id(source, build, product_id)]
        /\ UNCHANGED <<source, build, products_df, args, result, called, repeated, chat_history>>

\* A caller asks for the categories with their counts.
GetCategoryCount ==
    /\ Idle
    /\ reply' = [op |-> "get_category_count", value |-> get_category_count(source, build)]
    /\ UNCHANGED <<source, build, products_df, args, result, called, repeated, chat_history>>

\* The agent calls the tool get_category_products.
GetCategoryProducts(CategorySet) ==
    \E category \in CategorySet :
        /\ Idle
        /\ reply' = [op |-> "get_category_products", category |-> category,
                     value |-> get_category_products(products_df, source, build, category)]
        /\ UNCHANGED <<source, build, products_df, args, result, called, repeated, chat_history>>

\* The agent calls the tool check_stock.
CheckStock(IdSet) ==
    \E product_id \in IdSet :
        /\ Idle
        /\ reply' = [op |-> "check_stock", product_id |-> product_id,
                     value |-> check_stock(source, build, product_id)]
        /\ UNCHANGED <<source, build, products_df, args, result, called, repeated, chat_history>>

\* The agent calls the tool list_product_categories.
ListProductCategories ==
    /\ Idle
    /\ reply' = [op |-> "list_product_categories",
                 value |-> list_product_categories(products_df)]
    /\ UNCHANGED <<source, build, products_df, args, result, called, repeated, chat_history>>

\* The agent calls the tool recommend_products.
RecommendProducts(QuerySet, BudgetSet) ==
    \E query \in QuerySet, budget \in BudgetSet :
        /\ Idle
        /\ reply' = [op |-> "recommend_products", query |-> query, budget |-> budget,
                     value |-> recommend_products(source, build, query, budget)]
        /\ UNCHANGED <<source, build, products_df, args, result, called, repeated, chat_history>>

\* The product file is replaced on disk while the process runs; the frame
\* loaded at import stays as it is.
Rewrite(Sources) ==
    /\ Idle
    /\ source' \in Sources \ {source}
    /\ UNCHANGED <<build, products_df, args, result, called, repeated, reply, chat_history>>

\* The names of all_tools, and those run_agent_interaction always hands over
all_tools ==
    {"search_products", "get_product_details", "check_stock",
     "list_product_categories", "get_category_products", "recommend_products"}

required_tool_names == <<"search_products", "get_product_details", "list_product_categories">>

\* The elements of a sequence
Range(seq) == {seq[i] : i \in 1..Len(seq)}

\* filtered_tools with every required tool appended, active or not
filtered_tools_RequiredAlways(active_tools) ==
    SelectSeq(active_tools, LAMBDA tool_name : tool_name \in all_tools)
    \o SelectSeq(required_tool_names, LAMBDA req_tool : req_tool \in all_tools)

\* The tools run_agent_interaction gives the agent: the active ones that
\* all_tools knows, in the order given, then each required tool that is
\* not among the active ones.
filtered_tools(active_tools) ==
    SelectSeq(active_tools, LAMBDA tool_name : tool_name \in all_tools)
    \o SelectSeq(required_tool_names,
            LAMBDA req_tool : req_tool \in all_tools /\ req_tool \notin Range(active_tools))

\* run_agent_interaction builds the tool list for the agent.
RunAgentInteraction(ToolLists) ==
    \E active_tools \in ToolLists :
        /\ Idle
        /\ reply' = [op |-> "run_agent_interaction", active_tools |-> active_tools,
                     value |-> filtered_tools(active_tools)]
        /\ UNCHANGED <<source, build, products_df, args, result, called, repeated, chat_history>>

\* The messages of the chat page
AIMessage(content) == [type |-> "ai", content |-> content]
HumanMessage(content) == [type |-> "human", content |-> content]

\* The openings of the five greetings get_random_greeting chooses from
Greetings == {"Hello!", "Welcome to ShopSight!", "Hi there!", "Greetings!", "Welcome!"}

\* What the agent call can come to: run_agent_interaction returns an answer,
\* returns its own error message, or raises.
Outcomes == {"answer", "error message", "raises"}

\* run_agent_query that leaves a query unanswered when the agent call raises
run_agent_query_ErrorUnanswered(history, query, outcome) ==
    IF outcome = "raises"
    THEN Append(history, HumanMessage(query))
    ELSE Append(Append(history, HumanMessage(query)), AIMessage(outcome))

\* run_agent_query: appends the query, calls the agent, appends its
\* response or, when the call raises, the text of the except branch.
run_agent_query(history, query, outcome) ==
    LET agent_response_text ==
            IF outcome = "raises" THEN "I encountered an error" ELSE outcome
    IN  Append(Append(history, HumanMessage(query)), AIMessage(agent_response_text))

\* The first script run of a session creates the history.
OpenSession ==
    /\ chat_history = <<>>
    /\ \E greeting \in Greetings : chat_history' = <<AIMessage(greeting)>>
    /\ UNCHANGED <<source, build, products_df, args, result, called, repeated, reply>>

\* The user sends a query: typed, or through a card or category button.
RunAgentQuery(QuerySet) ==
    \E query \in QuerySet, outcome \in Outcomes :
        /\ chat_history # <<>>
        /\ Len(chat_history) < 1 + 2 * MaxQueries
        /\ chat_history' = run_agent_query(chat_history, query, outcome)
        /\ UNCHANGED <<source, build, products_df, args, result, called, repeated, reply>>

\* The user presses New Conversation.
NewConversation ==
    /\ chat_history # <<>>
    /\ \E greeting \in Greetings : chat_history' = <<AIMessage(greeting)>>
    /\ UNCHANGED <<source, build, products_df, args, result, called, repeated, reply>>

\* The caller is done with what a load or lookup returned.
Finish ==
    /\ reply.op # "none"
    /\ reply' = NoReply
    /\ UNCHANGED <<source, build, products_df, args, result, called, repeated, chat_history>>

\* Rows of a frame as a set, and the ids in row order
RowSet(rows) == {rows[i] : i \in 1..Len(rows)}
Catalog == load_products_data(source, build)

----------------------------------------------------------------------------
(* Sorting: files that differ in id, price and rating, searched with every *)
(* sort order, with and without a price floor.                             *)

SortRows ==
    {RawRow(Some(id), Some(<<"a","b">>), None, Some(<<p>>), Some(<<"c">>), None, r, None) :
        id \in {1, 2}, p \in {"1", "2"}, r \in {None, Some(<<"4">>), Some(<<"5">>)}}

SortSources == Files(RequiredColumns \cup {"rating"}, SortRows)

SortArgs ==
    {[DefaultArgs EXCEPT !.sort_by = s, !.min_price = m] :
        s \in SortKeys \cup {"relevance", "PRICE_LOW"}, m \in {None, Some(2)}}

InitSort == InitWith(SortSources, {b \in Builds : b.strict_string_dtype})
NextSort == Request(SortArgs) \/ Discard
SpecSort == InitSort /\ [][NextSort]_vars

\* The column a sort order reads
SortColumn(sort_by) ==
    CASE sort_by \in {"price_low", "price_high"} -> "price"
      [] sort_by = "rating" -> "rating"
      [] sort_by = "newest" -> "id"

\* C8: for every sort_by of the four, two returned records with equal sort
\* key appear in the order they have in the catalog (the sort is stable).
C8_StableOnTies ==
    (called /\ args.sort_by \in SortKeys) =>
        \A i, j \in 1..Len(result.rows) :
            (i < j /\ result.rows[i][SortColumn(args.sort_by)]
                        = result.rows[j][SortColumn(args.sort_by)])
                => result.rows[i].idx < result.rows[j].idx

\* C9: with sort_by = "rating" the rated records come in descending rating
\* order and every record without a rating comes after every rated one.
C9_RatingDescendingMissingLast ==
    (called /\ args.sort_by = "rating") =>
        \A i, j \in 1..Len(result.rows) :
            i < j =>
                /\ IsNone(result.rows[i].rating) => IsNone(result.rows[j].rating)
                /\ (IsSome(result.rows[i].rating) /\ IsSome(result.rows[j].rating))
                      => Get(result.rows[i].rating) >= Get(result.rows[j].rating)

\* A rating search of a file that lists an unrated row first and a lower
\* rated row before a higher rated one, all three returned.
C9_Witness ==
    /\ called /\ args.sort_by = "rating" /\ IsNone(args.min_price)
    /\ Len(source.rows) = 3 /\ Len(result.rows) = 3
    /\ IsNone(source.rows[1].rating)
    /\ source.rows[2].rating = Some(<<"4">>)
    /\ source.rows[3].rating = Some(<<"5">>)

\* C10: adjacent returned records are ordered by the selected key (price
\* non-decreasing for price_low, price non-increasing for price_high, id
\* non-increasing for newest), and the returned records are exactly the
\* records that passed the filters, each once.
C10_OrderedByKeySameRecords ==
    (called /\ args.sort_by \in {"price_low", "price_high", "newest"}) =>
        /\ \A i \in 1..(Len(result.rows) - 1) :
              LET a == Get(result.rows[i][SortColumn(args.sort_by)])
                  b == Get(result.rows[i + 1][SortColumn(args.sort_by)])
              IN  IF args.sort_by = "price_low" THEN a <= b ELSE a >= b
        /\ RowSet(result.rows) = RowSet(ApplyFilters(Catalog, args))
        /\ Len(result.rows) = Len(ApplyFilters(Catalog, args))

\* A newest-first search with a price floor that drops a row and returns
\* the others in an order that is not the file's.
C10_Witness ==
    /\ called /\ args.sort_by = "newest" /\ IsSome(args.min_price)
    /\ Len(result.rows) = 2 /\ Len(Catalog.rows) = 3
    /\ result.rows[1].idx > result.rows[2].idx
    /\ Get(result.rows[1].id) > Get(result.rows[2].id)

\* C22: with a sort_by that is none of the known keys the search raises
\* nothing and returns the records that passed the filters in the order
\* the catalog was loaded in.
C22_UnknownSortKeepsLoadOrder ==
    (called /\ args.sort_by \notin SortKeys) =>
        /\ result # Raised
        /\ RowSet(result.rows) = RowSet(ApplyFilters(Catalog, args))
        /\ Len(result.rows) = Len(ApplyFilters(Catalog, args))
        /\ \A i, j \in 1..Len(result.rows) :
              i < j => result.rows[i].idx < result.rows[j].idx

\* A search with sort_by = "relevance" that returns three records whose
\* prices are not in ascending order.
C22_Witness ==
    /\ called /\ args.sort_by = "relevance"
    /\ Len(result.rows) = 3
    /\ Get(result.rows[1].price) > Get(result.rows[2].price)

----------------------------------------------------------------------------
(* Repeated calls: one call after another on the same file.                *)

RepeatRows ==
    {RawRow(None, Some(<<"a","b">>), None, Some(<<p>>), Some(<<"c">>), None, r, None) :
        p \in {"1", "2"}, r \in {None, Some(<<"4">>)}}

RepeatSources == Numbered(Files(RequiredColumns \cup {"rating"}, RepeatRows))

RepeatArgs == {[DefaultArgs EXCEPT !.sort_by = s] : s \in SortKeys}

InitRepeat == InitWith(RepeatSources, {b \in Builds : b.strict_string_dtype})
NextRepeat == Search(RepeatArgs)
SpecRepeat == InitRepeat /\ [][NextRepeat]_vars

----------------------------------------------------------------------------
(* Stock: files with and without an in_stock column, its cells boolean     *)
(* words, other words or missing.                                          *)

StockCells ==
    {None, Some(<<"T","r","u","e">>), Some(<<"F","a","l","s","e">>),
     Some(<<"Y","e","s">>), Some(<<"n","o">>)}

StockRows ==
    {RawRow(None, Some(<<"a","b">>), None, None, Some(<<"c">>), None, None, c) :
        c \in StockCells}

StockSources ==
    PricedDown(Numbered(
        Files(RequiredColumns \cup {"in_stock"}, StockRows)
        \cup Files(RequiredColumns, {r \in StockRows : IsNone(r.in_stock)})))

StockArgs ==
    {[DefaultArgs EXCEPT !.in_stock_only = o, !.sort_by = s] :
        o \in BOOLEAN, s \in SortKeys}

InitStock == InitWith(StockSources, Builds)
NextStock == Request(StockArgs) \/ Discard
SpecStock == InitStock /\ [][NextStock]_vars

\* No filter argument other than in_stock_only is supplied and the query
\* is empty.
NoFilterArguments(a) ==
    /\ a.query = <<>>
    /\ IsNone(a.min_price) /\ IsNone(a.max_price) /\ IsNone(a.category)
    /\ IsNone(a.brand) /\ IsNone(a.rating_min)

\* The rows are in the order sort_by asks for.
OrderedPer(rows, sort_by) ==
    \A i, j \in 1..Len(rows) :
        i < j =>
            CASE sort_by = "price_low" -> Get(rows[i].price) <= Get(rows[j].price)
              [] sort_by = "price_high" -> Get(rows[i].price) >= Get(rows[j].price)
              [] sort_by = "newest" -> Get(rows[i].id) >= Get(rows[j].id)
              [] sort_by = "rating" ->
                    /\ IsNone(rows[i].rating) => IsNone(rows[j].rating)
                    /\ (IsSome(rows[i].rating) /\ IsSome(rows[j].rating))
                          => Get(rows[i].rating) >= Get(rows[j].rating)
              [] OTHER -> rows[i].idx < rows[j].idx

\* The call returned every record of the catalog, each once, in the order
\* sort_by asks for.
ReturnsWholeCatalog ==
    /\ Len(result.rows) = Len(Catalog.rows)
    /\ RowSet(result.rows) = RowSet(Catalog.rows)
    /\ OrderedPer(result.rows, args.sort_by)

\* C1 as stated: a search with an empty query and every filter argument at
\* its default (in_stock_only = true among them) returns every record of
\* the catalog, each exactly once, ordered per sort_by.
C1_DefaultsReturnWholeCatalog ==
    (called /\ NoFilterArguments(args) /\ args.in_stock_only)
        => ReturnsWholeCatalog

\* C1 amended: a search with an empty query, no filter argument and
\* in_stock_only = false returns every record of the catalog, each exactly
\* once, ordered per sort_by.
C1_NoStockFilterReturnsWholeCatalog ==
    (called /\ NoFilterArguments(args) /\ ~args.in_stock_only)
        => ReturnsWholeCatalog

\* Such a search of a three-row file with an out-of-stock record, returned
\* in an order that is not the file's.
C1_Witness ==
    /\ called /\ NoFilterArguments(args) /\ ~args.in_stock_only
    /\ args.sort_by = "price_low"
    /\ Len(result.rows) = 3
    /\ result.rows[1].idx = 3
    /\ \E i \in 1..3 : result.rows[i].in_stock = Some(FALSE)

\* C2: a search with in_stock_only = true returns no record whose
\* normalized stock flag is false or unknown.
C2_InStockOnlyReturnsInStock ==
    (called /\ args.in_stock_only) =>
        \A i \in 1..Len(result.rows) : result.rows[i].in_stock = Some(TRUE)

\* The stock flag the normalization rule gives a cell: true for text whose
\* lowercase form is "true" or "yes" (a native True among them), false for
\* any other text and for a missing cell.
ExpectedStock(cell) ==
    IsSome(cell) /\ Lower(Get(cell)) \in {<<"t","r","u","e">>, <<"y","e","s">>}

\* C14: every row of the frame loaded at import carries the stock flag the
\* normalization rule gives the in_stock cell of its source row.
C14_StockNormalization ==
    "in_stock" \in source.cols =>
        \A i \in 1..Len(products_df.rows) :
            products_df.rows[i].in_stock
                = Some(ExpectedStock(source.rows[products_df.rows[i].idx].in_stock))

\* C27: a search with in_stock_only=true and no other filter returns the
\* product of an id if and only if check_stock reports that id in stock; a
\* product reported out of stock or without stock information is not
\* returned.
C27_SearchAgreesWithCheckStock ==
    (called /\ args.in_stock_only) =>
        \A product_id \in 1..MaxRows :
            (\E i \in 1..Len(result.rows) : result.rows[i].id = Some(product_id))
                <=> check_stock(source, build, product_id) = "in stock"

----------------------------------------------------------------------------
(* Price bounds: files that differ in price and stock.                     *)

PriceRows ==
    {RawRow(None, Some(<<"a","b">>), None, Some(<<p>>), Some(<<"c">>), None, None, Some(c)) :
        p \in {"1", "2", "3"}, c \in {<<"T","r","u","e">>, <<"F","a","l","s","e">>}}

PriceSources == Numbered(Files(RequiredColumns \cup {"in_stock"}, PriceRows))

PriceArgs ==
    {[DefaultArgs EXCEPT !.min_price = lo, !.max_price = hi, !.in_stock_only = o] :
        lo \in {None, Some(1), Some(2)}, hi \in {None, Some(1), Some(2), Some(3)},
        o \in BOOLEAN}

InitPrice == InitWith(PriceSources, {b \in Builds : b.strict_string_dtype})
NextPrice == Request(PriceArgs) \/ Discard
SpecPrice == InitPrice /\ [][NextPrice]_vars

\* The records that pass every filter of the call but the price bounds
PassOtherThanPrice ==
    RowSet(ApplyFilters(Catalog, [args EXCEPT !.min_price = None, !.max_price = None]))

\* C3: with bounds lo <= hi every returned record has lo <= price <= hi,
\* and every record that passes the other filters and is priced exactly lo
\* or exactly hi is returned.
C3_PriceBoundsInclusive ==
    (called /\ IsSome(args.min_price) /\ IsSome(args.max_price)
            /\ Get(args.min_price) <= Get(args.max_price)) =>
        LET lo == Get(args.min_price)
            hi == Get(args.max_price)
        IN  /\ \A r \in RowSet(result.rows) : lo <= Get(r.price) /\ Get(r.price) <= hi
            /\ \A r \in PassOtherThanPrice :
                  Get(r.price) \in {lo, hi} => r \in RowSet(result.rows)

\* A search with 1 <= price <= 2 for in-stock records of a file that holds
\* an in-stock record at each bound, one priced 3 and one out of stock.
C3_Witness ==
    /\ called /\ args.min_price = Some(1) /\ args.max_price = Some(2)
    /\ args.in_stock_only
    /\ Len(result.rows) = 2
    /\ Get(result.rows[1].price) = 1 /\ Get(result.rows[2].price) = 2
    /\ Len(Catalog.rows) = 3

\* C24: a search with min_price > max_price raises nothing and returns no
\* record, whatever the catalog holds.
C24_CrossedBoundsGiveEmptyResult ==
    (called /\ IsSome(args.min_price) /\ IsSome(args.max_price)
            /\ Get(args.min_price) > Get(args.max_price)) =>
        result # Raised /\ result.rows = <<>>

\* A search with min_price 2 and max_price 1, stock not asked for, of a
\* file of three records priced 1, 2 and 3.
C24_Witness ==
    /\ called /\ args.min_price = Some(2) /\ args.max_price = Some(1)
    /\ ~args.in_stock_only
    /\ result.rows = <<>>
    /\ {Get(r.price) : r \in RowSet(Catalog.rows)} = {1, 2, 3}

----------------------------------------------------------------------------
(* The whole filter set: files made of four products, with every column   *)
(* or without the brand, rating and in_stock columns, searched with every  *)
(* combination of the seven filters.                                       *)

AllColumns ==
    RequiredColumns \cup {"description", "brand", "rating", "in_stock"}

ProductRows ==
    {RawRow(Some(1), Some(<<"S","h","o","e">>), Some(<<"T","r","a","i","l">>),
            Some(<<"1","2">>), Some(<<"F","w">>), Some(<<"A","x">>),
            Some(<<"5">>), Some(<<"T","r","u","e">>)),
     RawRow(Some(2), Some(<<"L","a","m","p">>), Some(<<"D","e","s","k">>),
            Some(<<"2">>), Some(<<"H","o">>), Some(<<"B","o">>),
            Some(<<"3">>), Some(<<"F","a","l","s","e">>)),
     RawRow(Some(3), Some(<<"S","o","c","k">>), Some(<<"S","h","o","e">>),
            Some(<<"4">>), Some(<<"f","w">>), Some(<<"a","x">>),
            None, Some(<<"T","r","u","e">>)),
     RawRow(Some(4), Some(<<"B","o","o","t">>), None,
            Some(<<"1","2">>), Some(<<"F","W">>), None,
            Some(<<"4">>), Some(<<"F","a","l","s","e">>))}

ProductSources ==
    Files(AllColumns, ProductRows)
    \cup Files(RequiredColumns \cup {"description"}, ProductRows)

ProductArgs ==
    {[query |-> q, min_price |-> lo, max_price |-> hi, category |-> c, brand |-> b,
      rating_min |-> r, in_stock_only |-> o, sort_by |-> "price_low"] :
        q \in {<<>>, <<"s","h","o","e">>}, lo \in {None, Some(3)}, hi \in {None, Some(5)},
        c \in {None, Some(<<"F","W">>)}, b \in {None, Some(<<"A","X">>)},
        r \in {None, Some(4)}, o \in BOOLEAN}

Init == InitWith(ProductSources, {b \in Builds : b.strict_string_dtype /\ b.stable_sort})
Next == Request(ProductArgs) \/ Discard
Spec == Init /\ [][Next]_vars

FilterArguments ==
    {"category", "brand", "min_price", "max_price", "rating_min", "in_stock_only",
     "query"}

\* The call with one filter argument of `a` kept and the others inactive
OnlyFilter(a, f) ==
    [[DefaultArgs EXCEPT !.in_stock_only = FALSE, !.sort_by = a.sort_by]
        EXCEPT ![f] = a[f]]

\* The filter arguments of `a` that ask for something
ActiveFilters(a) ==
    {f \in FilterArguments \ {"in_stock_only", "query"} : IsSome(a[f])}
    \cup {f \in {"in_stock_only"} : a.in_stock_only}
    \cup {f \in {"query"} : QueryActive(a.query)}

\* C4: the records a search returns are exactly the catalog records that
\* every one of its active filters, applied alone, returns.
C4_FiltersConjunctive ==
    called =>
        LET alone == [f \in ActiveFilters(args) |->
                        RowSet(search_products(source, build, OnlyFilter(args, f)).rows)]
        IN  RowSet(result.rows) =
                {r \in RowSet(Catalog.rows) : \A f \in ActiveFilters(args) : r \in alone[f]}

\* A search with four active filters that returns one record of three, each
\* of the other two passing some of the four filters.
C4_Witness ==
    /\ called
    /\ Cardinality(ActiveFilters(args)) >= 4
    /\ Len(Catalog.rows) = 3
    /\ Len(result.rows) = 1
    /\ \A r \in RowSet(Catalog.rows) \ RowSet(result.rows) :
          \E f \in ActiveFilters(args) :
              r \in RowSet(search_products(source, build, OnlyFilter(args, f)).rows)

\* C16: when rating_min is supplied, every returned record has a rating
\* and that rating is at least rating_min, whether or not the file has a
\* rating column.
C16_RatingFloorAlwaysApplied ==
    (called /\ IsSome(args.rating_min)) =>
        \A i \in 1..Len(result.rows) :
            /\ IsSome(result.rows[i].rating)
            /\ Get(result.rows[i].rating) >= Get(args.rating_min)

----------------------------------------------------------------------------
(* Text: files that differ in name and description, with and without a    *)
(* description column, searched with plain words and with "." and "(".    *)

TextNames == {<<"A","b">>, <<"b","a">>, <<"a",".">>}

TextRows ==
    {RawRow(None, Some(n), d, Some(<<"1">>), Some(<<"c">>), None, None, None) :
        n \in TextNames, d \in {None, Some(<<"a","B">>)}}

TextSources ==
    Numbered(
        Files(RequiredColumns \cup {"description"}, TextRows)
        \cup Files(RequiredColumns, {r \in TextRows : IsNone(r.description)}))

TextQueries ==
    {<<>>, <<" ">>, <<"a">>, <<"B">>, <<"a","b">>, <<"a",".">>, <<".">>, <<"(">>}

TextArgs == {[DefaultArgs EXCEPT !.query = q] : q \in TextQueries}

InitText == InitWith(TextSources, {b \in Builds : b.strict_string_dtype})
NextText == Request(TextArgs) \/ Discard
SpecText == InitText /\ [][NextText]_vars

\* q occurs in s as a run of consecutive characters
IsSubstring(q, s) ==
    \E off \in 0..(Len(s) - Len(q)) : SubSeq(s, off + 1, off + Len(q)) = q

\* C5: with a non-empty, non-whitespace query a record passes the text
\* filter if and only if its lowercased name or its lowercased description
\* contains the lowercased query as a literal substring.
C5_LiteralSubstring ==
    (called /\ QueryActive(args.query)) =>
        RowSet(result.rows) =
            {r \in RowSet(ApplyFilters(Catalog, [args EXCEPT !.query = <<>>])) :
                \/ IsSome(r.name) /\ IsSubstring(Lower(args.query), Lower(Get(r.name)))
                \/ IsSome(r.description)
                   /\ IsSubstring(Lower(args.query), Lower(Get(r.description)))}

\* C26: of a file without a description column, a search with a non-empty,
\* non-whitespace query returns exactly the records that pass the other
\* filters and whose lowercased name contains the lowercased query.
C26_NameOnlyWithoutDescription ==
    (called /\ QueryActive(args.query) /\ "description" \notin source.cols) =>
        RowSet(result.rows) =
            {r \in RowSet(ApplyFilters(Catalog, [args EXCEPT !.query = <<>>])) :
                IsSome(r.name) /\ IsSubstring(Lower(args.query), Lower(Get(r.name)))}

----------------------------------------------------------------------------
(* Category and brand: files that differ in the letter case of both, with  *)
(* and without a brand column.                                             *)

CategoryRows ==
    {RawRow(None, Some(<<"a","b">>), None, None, Some(c), b, None, None) :
        c \in {<<"A","b">>, <<"a","B">>, <<"b">>},
        b \in {None, Some(<<"X">>), Some(<<"x">>)}}

CategorySources ==
    PricedDown(Numbered(
        Files(RequiredColumns \cup {"brand"}, CategoryRows)
        \cup Files(RequiredColumns, {r \in CategoryRows : IsNone(r.brand)})))

CategoryArgs ==
    {[DefaultArgs EXCEPT !.category = c, !.brand = b] :
        c \in {None, Some(<<"A","B">>), Some(<<"a","b">>), Some(<<"B">>)},
        b \in {None, Some(<<"X">>), Some(<<"x">>)}}

InitCategory ==
    InitWith(CategorySources, {b \in Builds : b.strict_string_dtype /\ b.stable_sort})
NextCategory == Request(CategoryArgs) \/ Discard
SpecCategory == InitCategory /\ [][NextCategory]_vars

\* Two optional strings that are both absent or differ at most in the case
\* of their letters
SameButCase(s, t) ==
    /\ Len(s) = Len(t)
    /\ IsSome(s) =>
          /\ Len(Get(s)) = Len(Get(t))
          /\ \A i \in 1..Len(Get(s)) : LowerChar(Get(s)[i]) = LowerChar(Get(t)[i])

\* C6: two searches whose category and brand arguments differ only in
\* letter case, all other arguments equal, return the same set of records.
C6_CaseInsensitive ==
    called =>
        \A a \in CategoryArgs :
            (SameButCase(a.category, args.category) /\ SameButCase(a.brand, args.brand)
                /\ [a EXCEPT !.category = None, !.brand = None]
                     = [args EXCEPT !.category = None, !.brand = None])
            => RowSet(search_products(source, build, a).rows) = RowSet(result.rows)

\* A search for category "AB" and brand "x" that returned a record whose
\* category is written "aB" and brand "X", from a file with a record of
\* another category.
C6_Witness ==
    /\ called
    /\ args.category = Some(<<"A","B">>) /\ args.brand = Some(<<"x">>)
    /\ \E i \in 1..Len(result.rows) :
          /\ result.rows[i].category = Some(<<"a","B">>)
          /\ result.rows[i].brand = Some(<<"X">>)
    /\ Len(result.rows) < Len(Catalog.rows)

----------------------------------------------------------------------------
(* Loading and lookups: files whose rows lack an id, repeat one or carry a *)
(* price that is no number; files that are missing, malformed, lack the    *)
(* price column or name the identifier column id.                          *)

LoadRows ==
    {RawRow(pid, Some(<<"a","b">>), None, Some(<<p>>), Some(<<c>>), None, None, None) :
        pid \in {None, Some(1), Some(2)}, p \in {"1", "x"}, c \in {"c", "d"}}

\* The file with its identifier column named id
IdNamed(f) == [f EXCEPT !.cols = (f.cols \ {"product_id"}) \cup {"id"}]

\* The same file with its identifier column named product_id
ProductIdNamed(f) == [f EXCEPT !.cols = (f.cols \ {"id"}) \cup {"product_id"}]

\* A file that is not there, one the parser gives up on, one without the
\* price column and one with the identifier column named id
Variants(f) ==
    {[f EXCEPT !.readable = FALSE], [f EXCEPT !.parses = FALSE],
     [f EXCEPT !.cols = f.cols \ {"price"}], IdNamed(f)}

LoadSources ==
    LET files == Files(RequiredColumns, LoadRows)
    IN  files \cup UNION {Variants(f) : f \in {g \in files : Len(g.rows) < MaxRows}}

LoadIds == {1, 2, 3}

LoadArgs ==
    {DefaultArgs,
     [DefaultArgs EXCEPT !.query = <<"(">>],
     [DefaultArgs EXCEPT !.query = <<"A">>, !.sort_by = "price_high"],
     [DefaultArgs EXCEPT !.category = Some(<<"C">>), !.sort_by = "newest"],
     [DefaultArgs EXCEPT !.brand = Some(<<"x">>), !.in_stock_only = FALSE],
     [DefaultArgs EXCEPT !.min_price = Some(1), !.max_price = Some(2)],
     [DefaultArgs EXCEPT !.rating_min = Some(4), !.sort_by = "rating"],
     [query |-> <<"a">>, min_price |-> Some(0), max_price |-> Some(9),
      category |-> Some(<<"c">>), brand |-> Some(<<"x">>), rating_min |-> Some(1),
      in_stock_only |-> TRUE, sort_by |-> "relevance"]}

InitLoad == InitWith(LoadSources, {b \in Builds : b.strict_string_dtype /\ b.stable_sort})

NextLoad ==
    \/ Load
    \/ GetProductById(LoadIds)
    \/ GetCategoryCount
    \/ Idle /\ Search(LoadArgs)
    \/ Discard
    \/ Finish

SpecLoad == InitLoad /\ [][NextLoad]_vars

\* C11: every record of the catalog the loader returns has an id that no
\* other record of that catalog shares, and a price.
C11_UniqueIdNonNullPrice ==
    reply.op = "load_products_data" =>
        LET rows == reply.value.rows
        IN  \A i, j \in 1..Len(rows) :
                /\ IsSome(rows[i].id)
                /\ IsSome(rows[i].price)
                /\ i # j => rows[i].id # rows[j].id

\* The load fails as a whole: the file is missing, the parser gives up on
\* it, or a required column is not in its header.
LoadFails(src) ==
    ~src.readable \/ ~src.parses \/ ~(RequiredColumns \subseteq src.cols)

\* C12: when the file is missing, lacks a required column or does not
\* parse, the loader returns an empty catalog and raises nothing; a search
\* then returns no record, get_product_by_id finds nothing and the category
\* count is the empty mapping.
C12_LoadFailureGivesEmptyCatalog ==
    LoadFails(source) =>
        /\ reply.op = "load_products_data" =>
              reply.value # Raised /\ reply.value.rows = <<>>
        /\ called => result # Raised /\ result.rows = <<>>
        /\ reply.op = "get_product_by_id" => reply.value = None
        /\ reply.op = "get_category_count" => DOMAIN reply.value = {}

\* The loader has answered for a file that has two well-formed rows and no
\* price column.
C12_Witness ==
    /\ reply.op = "load_products_data"
    /\ "price" \notin source.cols /\ source.readable /\ source.parses
    /\ Len(source.rows) = 2
    /\ \A i \in 1..2 : IsSome(source.rows[i].pid) /\ source.rows[i].price = Some(<<"1">>)
    /\ reply.value = EmptyFrame

\* C13: a file whose identifier column is named id, with the columns name,
\* price and category beside it, loads into the same catalog as the same
\* file with that column named product_id.
C13_IdColumnAccepted ==
    (reply.op = "load_products_data" /\ "id" \in source.cols
        /\ "product_id" \notin source.cols) =>
        reply.value = load_products_data(ProductIdNamed(source), build)

\* The rows of the file whose price is no number
BadPriceRows == {i \in 1..Len(source.rows) : IsNone(to_numeric(source.rows[i].price))}

\* C15: a source row whose price does not parse as a number is not in the
\* loaded catalog (so none is there with a missing or zero price), is
\* returned by no search and by no get_product_by_id, and the category
\* count gives each category the number of loaded records of it.
C15_UnparseablePriceExcluded ==
    /\ reply.op = "load_products_data" =>
          \A i \in 1..Len(reply.value.rows) :
              /\ reply.value.rows[i].idx \notin BadPriceRows
              /\ reply.value.rows[i].price
                    = to_numeric(source.rows[reply.value.rows[i].idx].price)
    /\ called => \A i \in 1..Len(result.rows) : result.rows[i].idx \notin BadPriceRows
    /\ (reply.op = "get_product_by_id" /\ IsSome(reply.value)) =>
          Get(reply.value).idx \notin BadPriceRows
    /\ reply.op = "get_category_count" =>
          /\ DOMAIN reply.value =
                {Get(Catalog.rows[i].category) : i \in 1..Len(Catalog.rows)}
          /\ \A c \in DOMAIN reply.value :
                reply.value[c] = Cardinality({i \in 1..Len(source.rows) :
                                    /\ i \notin BadPriceRows
                                    /\ IsSome(source.rows[i].pid)
                                    /\ source.rows[i].category = Some(c)})

\* The category count of a file with two good rows of category c and a row
\* of category d whose price is "x": c counted twice, d not at all.
C15_Witness ==
    /\ reply.op = "get_category_count"
    /\ Len(source.rows) = 3
    /\ Cardinality(BadPriceRows) = 1
    /\ \E i \in BadPriceRows :
          source.rows[i].category = Some(<<"d">>) /\ IsSome(source.rows[i].pid)
    /\ DOMAIN reply.value = {<<"c">>}
    /\ reply.value[<<"c">>] = 2

\* C17: get_product_by_id returns a record of the catalog whose id is the
\* requested integer when the catalog has one, and None, raising nothing,
\* when it has none (an empty catalog among them).
C17_GetByIdFindsOrNotFound ==
    reply.op = "get_product_by_id" =>
        IF \E r \in RowSet(Catalog.rows) : r.id = Some(reply.product_id)
        THEN /\ IsSome(reply.value)
             /\ Get(reply.value) \in RowSet(Catalog.rows)
             /\ Get(reply.value).id = Some(reply.product_id)
        ELSE reply.value = None

\* A lookup of id 2 in a file whose first row has id 1 and whose third has
\* id 2: the third row is returned.
C17_Witness ==
    /\ reply.op = "get_product_by_id" /\ reply.product_id = 2
    /\ Len(Catalog.rows) = 3
    /\ Catalog.rows[1].id = Some(1)
    /\ IsSome(reply.value) /\ Get(reply.value).idx = 3

\* C18: on an empty catalog a search returns no record and raises nothing,
\* whatever its query, filters and sort order.
C18_EmptyCatalogEmptyResult ==
    (called /\ Len(Catalog.rows) = 0) => result # Raised /\ result.rows = <<>>

\* A search with every filter set, and one whose query is no regular
\* expression, of a file whose only row is dropped at load.
C18_Witness ==
    /\ called /\ Len(Catalog.rows) = 0
    /\ Len(source.rows) = 1 /\ ~LoadFails(source)
    /\ \/ Cardinality(ActiveFilters(args)) = 7
       \/ re_error(args.query)
    /\ result = EmptyFrame

----------------------------------------------------------------------------
(* Category browsing: short files that differ in category and stock, and   *)
(* long files of one category with as many rows as the tool lists, and one *)
(* more.                                                                   *)

BrowseRows ==
    {RawRow(None, Some(<<"a","b">>), None, Some(<<p>>), Some(c), None, None, Some(k)) :
        p \in {"1", "2"}, c \in {<<"a">>, <<"A">>, <<"b">>},
        k \in {<<"T","r","u","e">>, <<"F","a","l","s","e">>}}

\* The file of n rows of category a, every second one out of stock
Shelf(n) ==
    [readable |-> TRUE, parses |-> TRUE, cols |-> RequiredColumns \cup {"in_stock"},
     rows |-> [i \in 1..n |->
                 RawRow(Some(i), Some(<<"a","b">>), None, Some(<<"1">>), Some(<<"a">>),
                        None, None,
                        Some(IF i % 2 = 0 THEN <<"F","a","l","s","e">>
                                          ELSE <<"T","r","u","e">>))]]

BrowseSources ==
    Numbered(Files(RequiredColumns \cup {"in_stock"}, BrowseRows))
    \cup {Shelf(n) : n \in (ListingLimit - 1)..(ListingLimit + 1)}

BrowseCategories == {<<"a">>, <<"B">>, <<"z">>}

BrowseArgs ==
    {[DefaultArgs EXCEPT !.category = Some(c), !.in_stock_only = FALSE] :
        c \in BrowseCategories}

InitBrowse == InitWith(BrowseSources, {b \in Builds : b.strict_string_dtype})

NextBrowse ==
    \/ GetCategoryProducts(BrowseCategories)
    \/ Idle /\ Search(BrowseArgs)
    \/ Discard
    \/ Finish

SpecBrowse == InitBrowse /\ [][NextBrowse]_vars

\* What search(query="", category=c, in_stock_only=false) returns
SearchOfCategory(c) ==
    search_products(source, build,
        [DefaultArgs EXCEPT !.category = Some(c), !.in_stock_only = FALSE]).rows

\* The first n elements of a sequence, all of it when it has fewer
FirstN(seq, n) == SubSeq(seq, 1, IF Len(seq) > n THEN n ELSE Len(seq))

----------------------------------------------------------------------------
(* A source that changes while the process runs: short files that differ   *)
(* in category and stock, replaced between calls.                          *)

ChangeRows ==
    {RawRow(None, Some(<<"a","b">>), None, Some(<<"1">>), Some(<<"a">>), None, None, Some(k)) :
        k \in {<<"T","r","u","e">>, <<"F","a","l","s","e">>}}
    \cup {RawRow(None, Some(<<"a","b">>), None, Some(<<"1">>), Some(<<"b">>), None, None,
                 Some(<<"T","r","u","e">>))}

ChangeSources == Numbered(Files(RequiredColumns \cup {"in_stock"}, ChangeRows))

ChangeArgs == {DefaultArgs, [DefaultArgs EXCEPT !.category = Some(<<"a">>)]}

InitChange ==
    InitWith(ChangeSources, {b \in Builds : b.strict_string_dtype /\ b.stable_sort})

NextChange ==
    \/ Rewrite(ChangeSources)
    \/ GetCategoryCount
    \/ Idle /\ Search(ChangeArgs)
    \/ GetProductById({1, 2})
    \/ CheckStock({1, 2})
    \/ ListProductCategories
    \/ GetCategoryProducts({<<"a">>})
    \/ Discard
    \/ Finish

SpecChange == InitChange /\ [][NextChange]_vars

\* C21: what each operation returns is what it returns for the catalog read
\* from the source as it is at that call, whatever the source was before:
\* search, product details, stock check, category list with counts and
\* category browsing.
C21_EveryCallReadsTheSource ==
    /\ called => result = search_products(source, build, args)
    /\ reply.op = "get_product_by_id" =>
          reply.value = get_product_by_id(source, build, reply.product_id)
    /\ reply.op = "check_stock" =>
          reply.value = check_stock(source, build, reply.product_id)
    /\ reply.op = "list_product_categories" =>
          reply.value = list_product_categories(Catalog)
    /\ reply.op = "get_category_products" =>
          reply.value = get_category_products(Catalog, source, build, reply.category)

\* C23: asked of an empty catalog, the utility get_category_count returns
\* the empty mapping and the tool list_product_categories answers that
\* there are no categories, with the empty mapping.
C23_EmptyCatalogEmptyMapping ==
    /\ (reply.op = "get_category_count" /\ Len(Catalog.rows) = 0) =>
          DOMAIN reply.value = {}
    /\ (reply.op = "list_product_categories" /\ Len(products_df.rows) = 0) =>
          /\ reply.value.message = "no categories found"
          /\ DOMAIN reply.value.categories = {}

----------------------------------------------------------------------------
(* Recommendations: short files that differ in rating, price and stock,    *)
(* with and without the in_stock column, and files of about RecommendLimit *)
(* rated products.                                                         *)

RecommendRows ==
    {RawRow(None, Some(<<"a","b">>), None, Some(<<p>>), Some(<<"c">>), None, r,
            Some(<<"T","r","u","e">>)) :
        p \in {"1", "3"}, r \in {None, Some(<<"4">>), Some(<<"5">>)}}
    \cup {RawRow(None, Some(<<"a","b">>), None, Some(<<"1">>), Some(<<"c">>), None,
                 Some(<<"5">>), Some(<<"F","a","l","s","e">>))}

\* RecommendRows as they are in a file without the in_stock column
Unstocked(rows) == {[r EXCEPT !.in_stock = None] : r \in rows}

\* The file of n in-stock products priced 1, rated 3, 4, 5, 3, 4, 5, ...
Rated(n) ==
    [readable |-> TRUE, parses |-> TRUE,
     cols |-> RequiredColumns \cup {"rating", "in_stock"},
     rows |-> [i \in 1..n |->
                 RawRow(Some(i), Some(<<"a","b">>), None, Some(<<"1">>), Some(<<"c">>),
                        None,
                        Some(IF i % 3 = 1 THEN <<"3">> ELSE IF i % 3 = 2 THEN <<"4">>
                                                            ELSE <<"5">>),
                        Some(<<"T","r","u","e">>))]]

RecommendSources ==
    Numbered(Files(RequiredColumns \cup {"rating", "in_stock"}, RecommendRows)
             \cup Files(RequiredColumns \cup {"rating"}, Unstocked(RecommendRows)))
    \cup {Rated(n) : n \in (RecommendLimit - 1)..(RecommendLimit + 2)}

RecommendQueries == {<<>>, <<"a">>, <<"z">>}
RecommendBudgets == {None, Some(2)}

InitRecommend == InitWith(RecommendSources, {b \in Builds : b.strict_string_dtype})
NextRecommend == RecommendProducts(RecommendQueries, RecommendBudgets) \/ Finish
SpecRecommend == InitRecommend /\ [][NextRecommend]_vars

\* What search(query, max_price=budget, sort_by="rating") returns for the
\* arguments of the recommendation held
RecommendSearch ==
    search_products(source, build,
        [DefaultArgs EXCEPT !.query = reply.query, !.max_price = reply.budget,
                            !.sort_by = "rating"]).rows

\* Record r is rated and line l is unrated or rated lower
RatedHigher(r, l) ==
    IsSome(r.rating) /\ (IsNone(l.rating) \/ Get(r.rating) > Get(l.rating))

\* C28: recommend_products lists at most RecommendLimit products, the first
\* ones of search(query, max_price=budget, sort_by="rating"); every listed
\* product is in stock and priced within the budget when one is given, and
\* no product of that search left out is rated higher than a listed one.
C28_RecommendationsAreTopInStock ==
    reply.op = "recommend_products" =>
        LET lines == reply.value.lines
        IN  /\ Len(lines) <= RecommendLimit
            /\ lines = [i \in 1..Len(lines) |-> RecommendLine(RecommendSearch[i])]
            /\ Len(lines) < RecommendLimit => Len(lines) = Len(RecommendSearch)
            /\ \A i \in 1..Len(lines) : \A r \in RowSet(Catalog.rows) :
                  r.id = lines[i].id =>
                      /\ r.in_stock = Some(TRUE)
                      /\ IsSome(reply.budget) => Get(r.price) <= Get(reply.budget)
            /\ \A k \in (Len(lines) + 1)..Len(RecommendSearch) :
                  \A i \in 1..Len(lines) : ~RatedHigher(RecommendSearch[k], lines[i])

----------------------------------------------------------------------------
(* The chat page: a session is opened, queries are sent and answered or    *)
(* fail, and the conversation is started anew.                             *)

ChatQueries == {"shoes", "Show details for product ID 1"}

InitChat == InitWith({Rated(1)}, {b \in Builds : b.strict_string_dtype /\ b.stable_sort})
NextChat == OpenSession \/ RunAgentQuery(ChatQueries) \/ NewConversation
SpecChat == InitChat /\ [][NextChat]_vars

\* One greeting of the assistant, then human and assistant in turns
GreetingThenTurns(history) ==
    /\ Len(history) % 2 = 1
    /\ history[1].type = "ai" /\ history[1].content \in Greetings
    /\ \A i \in 2..Len(history) :
          /\ history[i].type = (IF i % 2 = 0 THEN "human" ELSE "ai")
          /\ history[i].content \notin Greetings

\* C29: the chat history of a session is always one assistant greeting
\* followed by human and assistant messages in strict alternation; every
\* step that changes it either leaves a single assistant greeting (a
\* reset) or appends exactly one human message and then one assistant
\* message, also when the agent call fails.
C29_GreetingThenAlternation ==
    /\ [](chat_history # <<>> => GreetingThenTurns(chat_history))
    /\ [][chat_history # <<>> =>
            \/ chat_history' = chat_history
            \/ Len(chat_history') = 1 /\ GreetingThenTurns(chat_history')
            \/ /\ Len(chat_history') = Len(chat_history) + 2
               /\ SubSeq(chat_history', 1, Len(chat_history)) = chat_history
               /\ chat_history'[Len(chat_history) + 1].type = "human"
               /\ chat_history'[Len(chat_history) + 2].type = "ai"]_vars

\* A conversation of two queries, the first of which made the agent call
\* raise.
C29_Witness ==
    /\ Len(chat_history) = 5
    /\ chat_history[2].type = "human"
    /\ chat_history[3] = AIMessage("I encountered an error")
    /\ chat_history[5].type = "ai"

----------------------------------------------------------------------------
(* The tools handed to the agent, for every list of known and unknown tool *)
(* names without repetition.                                               *)

ToolNames == all_tools \cup {"compare_prices"}

\* The sequences of n different names
SeqsWithoutRepeats(n) ==
    {s \in [1..n -> ToolNames] : \A i, j \in 1..n : s[i] = s[j] => i = j}

ToolLists == UNION {SeqsWithoutRepeats(n) : n \in 0..Cardinality(ToolNames)}

InitTools == InitWith({Rated(1)}, {b \in Builds : b.strict_string_dtype /\ b.stable_sort})
NextTools == RunAgentInteraction(ToolLists) \/ Finish
SpecTools == InitTools /\ [][NextTools]_vars

\* C30: whatever list of distinct names is active, the tools handed to the
\* agent include the three required ones, include each other known tool
\* exactly when it is active, hold no tool twice and hold no unknown name.
C30_ToolsHandedToAgent ==
    reply.op = "run_agent_interaction" =>
        LET handed == reply.value
            active == Range(reply.active_tools)
        IN  /\ Range(required_tool_names) \subseteq Range(handed)
            /\ \A t \in all_tools \ Range(required_tool_names) :
                  t \in Range(handed) <=> t \in active
            /\ \A i, j \in 1..Len(handed) : handed[i] = handed[j] => i = j
            /\ Range(handed) \subseteq all_tools

\* The user disabled search_products and list_product_categories and an
\* unknown name is active: four tools are handed over.
C30_Witness ==
    /\ reply.op = "run_agent_interaction"
    /\ reply.active_tools = <<"compare_prices", "get_product_details", "check_stock">>
    /\ reply.value = <<"get_product_details", "check_stock", "search_products",
                       "list_product_categories">>

====
